---- MODULE Spec2Model ----
(***************************************************************************)
(* git-access.c: the local git cache of a remote branch.                   *)
(*                                                                         *)
(* get_remote_repo() opens or clones the cache directory; for an opened    *)
(* cache update_local_repo() fetches and check_remote_status() /           *)
(* try_to_update() reconcile the local branch with its upstream.           *)
(* Every libgit2 call is one step of the model; its success or failure is  *)
(* chosen nondeterministically, its effect is the documented one.          *)
(***************************************************************************)
EXTENDS Integers, Sequences, FiniteSets, TLC

\* ------------------------------------------------------------------ bounds
MaxCommits == 3
MaxEntries == 1
MaxBody == 4
MaxTail == 3

\* --------------------------------------------------------- commit history
Commits == 1..MaxCommits
NULL == 0

\* A history: every commit's parents are older commits (acyclic by numbering).
Graphs == {g \in [Commits -> SUBSET Commits] : \A c \in Commits : g[c] \subseteq 1..(c - 1)}

RECURSIVE Ancestors(_, _)
Ancestors(g, c) == {c} \cup UNION {Ancestors(g, p) : p \in g[c]}

\* git_merge_base(): the best common ancestors of two commits; the call
\* yields one of them, or fails when there is none.
MergeBases(g, a, b) ==
    LET common == Ancestors(g, a) \cap Ancestors(g, b)
    IN  {x \in common : \A y \in common \ {x} : x \notin Ancestors(g, y)}

\* -------------------------------------------------------------- references
\* git_reference: a direct reference holds an oid, a symbolic one a name.
DirectRef(oid) == [type |-> "direct", oid |-> oid]
SymbolicRef == [type |-> "symbolic", oid |-> NULL]
Refs == {DirectRef(c) : c \in Commits} \cup {SymbolicRef}

\* git_reference_target(): the oid of a direct reference, NULL otherwise.
git_reference_target(ref) == IF ref.type = "direct" THEN ref.oid ELSE NULL

\* git_reference_cmp(): 0 iff both references have the same type and target.
git_reference_cmp(a, b) == IF a = b THEN 0 ELSE 1

\* ------------------------------------------------------------ status flags
\* unsigned int status words, as the set of their set bits (bit 0 .. bit 31).
UIntBits == 0..31
GIT_STATUS_CURRENT == {}
GIT_STATUS_WT_MODIFIED == {8}
GIT_STATUS_IGNORED == {14}
BitNot(x) == UIntBits \ x
BitOr(x, y) == x \cup y
BitAnd(x, y) == x \cap y

StatusFlags == {GIT_STATUS_CURRENT, GIT_STATUS_WT_MODIFIED, GIT_STATUS_IGNORED}
StatusReports == UNION {[1..n -> StatusFlags] : n \in 0..MaxEntries}

\* check_clean(): the status callback; nonzero stops the enumeration.
\*   status &= ~GIT_STATUS_CURRENT | GIT_STATUS_IGNORED;  (unary ~ binds first)
check_clean_never(status) == 0
check_clean(status) ==
    LET masked == BitAnd(status, BitOr(BitNot(GIT_STATUS_CURRENT), GIT_STATUS_IGNORED))
    IN  IF masked = {} THEN 0 ELSE 1

\* git_status_foreach() with check_clean: the index of the first entry the
\* callback rejects, 0 when it accepts them all.
FirstDirty(entries) ==
    LET bad == {i \in 1..Len(entries) : check_clean(entries[i]) # 0}
    IN  IF bad = {} THEN 0 ELSE CHOOSE i \in bad : \A j \in bad : i <= j

\* ------------------------------------------------------------- remote urls
SSH_URL == <<"s", "s", "h", ":", "/", "/", "h">>
HTTPS_URL == <<"h", "t", "t", "p", "s", ":", "/", "/", "h">>
GIT_URL == <<"g", "i", "t", ":", "/", "/", "h">>
Remotes == {SSH_URL, HTTPS_URL, GIT_URL}

\* strncmp(s, prefix, strlen(prefix)) == 0
HasPrefix(s, prefix) ==
    /\ Len(s) >= Len(prefix)
    /\ SubSeq(s, 1, Len(prefix)) = prefix

\* enum remote_type, chosen in update_local_repo()
remote_type(remote) ==
    IF HasPrefix(remote, <<"s", "s", "h", ":", "/", "/">>) THEN "SSH"
    ELSE IF HasPrefix(remote, <<"h", "t", "t", "p", "s", ":", "/", "/">>) THEN "HTTPS"
    ELSE "OTHER"

\* ------------------------------------------------------ decisions in code
\* get_remote_repo(): stat() the cache path, then corrupt / update / create.
get_remote_repo_any_path(state) ==
    IF state # "absent" THEN "update_local_repo" ELSE "create_local_repo"
get_remote_repo_path(state) ==
    IF state # "absent"
    THEN IF state # "dir" THEN "corrupt" ELSE "update_local_repo"
    ELSE "create_local_repo"

\* update_local_repo(): what is returned once the repository is open.
nonfatal_return_null(r) == "NULL"
nonfatal_return(r) == r

\* try_to_update(): the early return when both references are equal.
references_equal_never(local, remote) == FALSE
references_equal(local, remote) == git_reference_cmp(local, remote) = 0

\* try_to_update(): which side is strictly newer, from the merge base.
update_action_swapped(b, lid, rid) ==
    IF b = rid THEN "reset_to_remote"
    ELSE IF b = lid THEN "update_remote"
    ELSE "diverged"
update_action(b, lid, rid) ==
    IF b = lid THEN "reset_to_remote"
    ELSE IF b = rid THEN "update_remote"
    ELSE "diverged"

\* try_to_update(): the report for diverged histories.
diverged_outcome_head_first(is_bare, is_head) ==
    IF is_head # 1 THEN "DivergedNotHead"
    ELSE IF is_bare THEN "DivergedBareRepo"
    ELSE "DivergedNeedsMerge"
diverged_outcome(is_bare, is_head) ==
    IF is_bare THEN "DivergedBareRepo"
    ELSE IF is_head # 1 THEN "DivergedNotHead"
    ELSE "DivergedNeedsMerge"

\* reset_to_remote(): not checked out (bare or not HEAD) => just move the ref.
not_checked_out(is_bare, is_head) == is_bare \/ is_head # 1

\* ---------------------------------------------------------------- locators
\* A C string is the tuple of its characters; reading s[i] at or past its
\* length reads the terminating NUL.
NUL == "NUL"
At(s, i) == IF i < Len(s) THEN s[i + 1] ELSE NUL
Lower == {"a", "b", "c", "d", "e", "f", "g", "h", "i", "j", "k", "l", "m",
          "n", "o", "p", "q", "r", "s", "t", "u", "v", "w", "x", "y", "z"}
HttpsPrefix == <<"h", "t", "t", "p", "s", ":", "/", "/">>
FilePrefix == <<"f", "i", "l", "e", ":", "/", "/">>

\* format_string("%.*s", n, s + start)
FormatPrefix(s, start, n) ==
    SubSeq(s, start + 1, IF start + n < Len(s) THEN start + n ELSE Len(s))

\* while (flen && filename[--flen] != '[') blen++;
RECURSIVE FindOpen(_, _, _)
FindOpen(f, flen, blen) ==
    IF flen = 0 THEN <<0, blen>>
    ELSE IF At(f, flen - 1) # "[" THEN FindOpen(f, flen - 1, blen + 1)
    ELSE <<flen - 1, blen>>

\* The slash loop with the offset left at 1.
RECURSIVE StripSlashes_keep_offset(_, _, _)
StripSlashes_keep_offset(f, flen, offset) ==
    IF flen # 0 /\ At(f, flen - 1) = "/"
    THEN StripSlashes_keep_offset(f, flen - 1, offset)
    ELSE <<flen, offset>>

\* while (flen && filename[flen-1] == '/') { flen--; offset++; }
RECURSIVE StripSlashes(_, _, _)
StripSlashes(f, flen, offset) ==
    IF flen # 0 /\ At(f, flen - 1) = "/"
    THEN StripSlashes(f, flen - 1, offset + 1)
    ELSE <<flen, offset>>

\* The empty-path test left out.
empty_path_ignored(flen) == FALSE
\* if (!flen) return NULL;
empty_path(flen) == flen = 0

\* is_git_repository() up to its point of no return: the split of the name
\* into location and branch, or no split.
NoSplit == [ok |-> FALSE, loc |-> <<>>, branch |-> <<>>]
split_filename(f) ==
    IF Len(f) = 0 \/ At(f, Len(f) - 1) # "]" THEN NoSplit
    ELSE LET open == FindOpen(f, Len(f) - 1, 0)
             path == StripSlashes(f, open[1], 1)
         IN  IF empty_path(path[1]) THEN NoSplit
             ELSE [ok |-> TRUE,
                   loc |-> FormatPrefix(f, 0, path[1]),
                   branch |-> FormatPrefix(f, path[1] + path[2], open[2])]

\* while ((c = *p++) >= 'a' && c <= 'z'); gives p, one past the character c
RECURSIVE SkipLower(_, _)
SkipLower(s, p) == IF At(s, p) \in Lower THEN SkipLower(s, p + 1) ELSE p + 1

\* The scheme test without its two slashes.
has_scheme_colon_only(s) == At(s, SkipLower(s, 0) - 1) = ":"
\* if (c != ':') return NULL; if (*p++ != '/' || *p++ != '/') return NULL;
has_scheme(s) ==
    LET p == SkipLower(s, 0)
    IN  /\ At(s, p - 1) = ":"
        /\ At(s, p) = "/"
        /\ At(s, p + 1) = "/"

\* if (!strncmp(remote, "file://", 7)) remote += 7;  the characters skipped
file_skip(s) == IF HasPrefix(s, FilePrefix) THEN Len(FilePrefix) ELSE 0

\* strchr(s + from, ch) as an index into s, -1 for NULL
RECURSIVE strchr(_, _, _)
strchr(s, from, ch) ==
    IF from >= Len(s) THEN -1
    ELSE IF At(s, from) = ch THEN from
    ELSE strchr(s, from + 1, ch)

\* The https:// block: the identity recorded (none: <<>>) and the url left
\* in the buffer by strndup() and memmove().
extract_identity(r) ==
    LET at == strchr(r, 0, "@")
        slash == strchr(r, Len(HttpsPrefix), "/")
    IN  IF HasPrefix(r, HttpsPrefix) /\ at # -1 /\ slash # -1 /\ slash > at
        THEN [identity |-> <<FormatPrefix(r, Len(HttpsPrefix), at - Len(HttpsPrefix))>>,
              url |-> HttpsPrefix \o FormatPrefix(r, at + 1, Len(r))]
        ELSE [identity |-> <<>>, url |-> r]

\* The bytes given to SHA1_Update() without the zero byte.
digest_input_unseparated(r, b) == r \o b
\* SHA1_Update(remote); SHA1_Update("", 1); SHA1_Update(branch)
digest_input(r, b) == r \o <<NUL>> \o b

\* get_local_dir(): the default directory and the leading eight bytes of the
\* digest. SHA-1 is taken as collision-free: the digest stands for its input.
get_local_dir(r, b) == [dir |-> "system_default_directory", sha1 |-> digest_input(r, b)]

\* The names is_git_repository() is given.
Strings(chars, n) == UNION {[1..k -> chars] : k \in 0..n}
Schemes == {<<>>, HttpsPrefix, FilePrefix, FilePrefix \o HttpsPrefix,
            <<":", "/", "/">>, <<"H", ":", "/", "/">>, <<"s", ":", "/">>}
Filenames ==
    {scheme \o body \o tail : scheme \in Schemes,
                              body \in Strings({"u", "@", "/"}, MaxBody),
                              tail \in Strings({"[", "]", "b"}, MaxTail)}

\* ------------------------------------------------------------------ state
VARIABLES
    graph,          \* the commit history known to the cache
    pathState,      \* the cache path: "absent", "file" or "dir"
    bare,           \* git_repository_is_bare(repo)
    head,           \* the local branch is the checked-out branch
    localRef,       \* the local branch reference
    upstreamRef,    \* its remote-tracking reference
    serverRef,      \* the branch on the remote, an oid
    workTree,       \* the commit the working tree was checked out from
    statusEntries,  \* the status word of every enumerated working-tree entry
    pc,             \* the statement the acquire call is at
    remote,         \* the remote url of the call
    rt,             \* enum remote_type
    repo,           \* the repository handle
    ret,            \* the value returned to the caller
    local_id,       \* try_to_update(): target of local
    remote_id,      \* try_to_update(): target of remote
    base,           \* try_to_update(): the merge base
    decision,       \* the return path the call took
    reports,        \* the messages given to report_error(), in order
    trace,          \* the backend calls made, in order, with their results
    local0,         \* localRef when the call began
    tree0,          \* workTree when the call began
    entries0,       \* statusEntries when the call began
    remote0,        \* the remote-tracking reference try_to_update() was given
    applied,        \* the previous attempt reported an applied fast-forward
    filename,       \* is_git_repository(): the name it is given
    ppc,            \* the statement is_git_repository() is at
    loc,            \* the location buffer
    branch,         \* the branch name
    branchp,        \* *branchp: <<>> while not written, else <<string>>
    result,         \* the value is_git_repository() returned
    identity,       \* prefs.cloud_storage_email_encoded: <<>> or <<string>>
    remoteArg,      \* the remote given to get_local_dir()
    localdir,       \* the cache address: <<>> or <<address>>
    loc0,           \* the location as split from the name
    isRemote        \* the outcome of the scheme test

world == <<graph, pathState, bare, head, localRef, upstreamRef, serverRef, workTree, statusEntries>>
locals == <<remote, rt, repo, local_id, remote_id, base>>
snapshot == <<local0, tree0, entries0, remote0, applied>>
parser == <<filename, ppc, loc, branch, branchp, result, identity, remoteArg, localdir,
            loc0, isRemote>>
sync == <<world, pc, locals, ret, decision, reports, trace, snapshot>>
vars == <<sync, parser>>

\* is_git_repository() has not been called.
ParserIdle ==
    /\ filename = <<>>
    /\ ppc = "idle"
    /\ loc = <<>>
    /\ branch = <<>>
    /\ branchp = <<>>
    /\ result = "none"
    /\ identity = <<>>
    /\ remoteArg = <<>>
    /\ localdir = <<>>
    /\ loc0 = <<>>
    /\ isRemote = "unknown"

Call(name, rv) == [call |-> name, rv |-> rv]
Called(name) == \E i \in 1..Len(trace) : trace[i].call = name
CallCount(name) == Cardinality({i \in 1..Len(trace) : trace[i].call = name})
Result(name) == trace[CHOOSE i \in 1..Len(trace) : trace[i].call = name].rv
Reported(msg) == \E i \in 1..Len(reports) : reports[i] = msg

\* The working tree of a fresh state: none when bare, the branch when it is
\* checked out, another branch (at the root commit) otherwise.
TreeOf(isBare, isHead, ref) ==
    IF isBare THEN NULL
    ELSE IF isHead /\ ref.type = "direct" THEN ref.oid
    ELSE 1

Init ==
    /\ graph \in Graphs
    /\ pathState \in {"absent", "file", "dir"}
    /\ IF pathState = "dir"
       THEN /\ bare \in BOOLEAN
            /\ head \in BOOLEAN
            /\ localRef \in Refs
            /\ serverRef \in Commits
            /\ statusEntries \in (IF bare THEN {<<>>} ELSE StatusReports)
       ELSE /\ bare = FALSE
            /\ head = TRUE
            /\ localRef = DirectRef(1)
            /\ serverRef \in Commits
            /\ statusEntries = <<>>
    /\ upstreamRef = DirectRef(1)
    /\ workTree = TreeOf(bare, head, localRef)
    /\ pc = "idle"
    /\ remote = GIT_URL
    /\ rt = "OTHER"
    /\ repo = "NULL"
    /\ ret = "unset"
    /\ local_id = NULL
    /\ remote_id = NULL
    /\ base = NULL
    /\ decision = "none"
    /\ reports = <<>>
    /\ trace = <<>>
    /\ local0 = localRef
    /\ tree0 = workTree
    /\ entries0 = statusEntries
    /\ remote0 = SymbolicRef
    /\ applied = FALSE
    /\ ParserIdle

\* ---------------------------------------------------------------- helpers
Report(msg) == reports' = Append(reports, msg)
Note(name, rv) == trace' = Append(trace, Call(name, rv))

\* A return statement: the call is over with this decision and this value.
Return(d, value) ==
    /\ decision' = d
    /\ ret' = value
    /\ pc' = "done"

\* git_branch_is_head(): 1 when the branch is HEAD, 0 when not, <0 on error.
HeadResults == {IF head THEN 1 ELSE 0, -1}

\* ---------------------------------------------------------- get_remote_repo
\* stat(localdir): corrupt when it is no directory, update when it is one,
\* clone when it does not exist.
\* The corrupt report is report_error("local git cache at '%s' is corrupt")
\* with no argument for its %s: the call either formats whatever the argument
\* slot holds and returns, or faults on it.
get_remote_repo ==
    /\ pc = "idle"
    /\ \E url \in Remotes : remote' = url
    /\ local0' = localRef
    /\ tree0' = workTree
    /\ entries0' = statusEntries
    /\ remote0' = SymbolicRef
    /\ UNCHANGED applied
    /\ trace' = <<>>
    /\ repo' = "NULL"
    /\ local_id' = NULL
    /\ remote_id' = NULL
    /\ base' = NULL
    /\ rt' = "OTHER"
    /\ LET path == get_remote_repo_path(pathState)
       IN  IF path = "corrupt"
           THEN \/ /\ reports' = <<"local git cache is corrupt">>
                   /\ Return("CorruptCache", "NULL")
                \/ /\ reports' = <<>>
                   /\ decision' = "CorruptCache"
                   /\ ret' = "unset"
                   /\ pc' = "crashed"
           ELSE /\ reports' = <<>>
                /\ decision' = "none"
                /\ ret' = "unset"
                /\ pc' = path
    /\ UNCHANGED world
    /\ UNCHANGED parser

\* create_local_repo(): git_clone() checks the branch out into localdir.
create_local_repo ==
    /\ pc = "create_local_repo"
    /\ \E ok \in BOOLEAN :
         IF ok
         THEN /\ Note("git_clone", 0)
              /\ pathState' = "dir"
              /\ bare' = FALSE
              /\ head' = TRUE
              /\ localRef' = DirectRef(serverRef)
              /\ upstreamRef' = DirectRef(serverRef)
              /\ workTree' = serverRef
              /\ statusEntries' = <<>>
              /\ repo' = "cloned_repo"
              /\ Return("Cloned", "cloned_repo")
              /\ UNCHANGED <<graph, serverRef, reports>>
         ELSE /\ Note("git_clone", -1)
              /\ Report("git clone failed")
              /\ Return("CloneFailure", "NULL")
              /\ UNCHANGED <<world, repo>>
    /\ UNCHANGED <<remote, rt, local_id, remote_id, base, snapshot>>
    /\ UNCHANGED parser

\* --------------------------------------------------------- update_local_repo
\* git_repository_open(), then the remote type from the url prefix.
open_repository ==
    /\ pc = "update_local_repo"
    /\ \E ok \in BOOLEAN :
         IF ok
         THEN /\ Note("git_repository_open", 0)
              /\ repo' = "repo"
              /\ rt' = remote_type(remote)
              /\ pc' = "proxy"
              /\ UNCHANGED <<reports, decision, ret>>
         ELSE /\ Note("git_repository_open", -1)
              /\ Report("Unable to open git cache repository")
              /\ Return("OpenFailure", "NULL")
              /\ UNCHANGED <<repo, rt>>
    /\ UNCHANGED <<world, remote, local_id, remote_id, base, snapshot>>
    /\ UNCHANGED parser

\* rt == HTTPS && getProxyString(): git_repository_config(&conf, repo), then
\* git_config_set_string(conf, "http.proxy", ...). Neither result is looked
\* at. When git_repository_config() fails conf is not initialised and the
\* next call works on whatever it holds: it returns an error, or faults.
set_proxy ==
    /\ pc = "proxy"
    /\ \E found \in BOOLEAN :
         IF rt = "HTTPS" /\ found
         THEN \/ /\ \E set_rv \in {0, -1} :
                      trace' = trace \o <<Call("git_repository_config", 0),
                                          Call("git_config_set_string", set_rv)>>
                 /\ pc' = "origin"
              \/ /\ trace' = trace \o <<Call("git_repository_config", -1),
                                        Call("git_config_set_string", -1)>>
                 /\ pc' = "origin"
              \/ /\ trace' = trace \o <<Call("git_repository_config", -1)>>
                 /\ pc' = "crashed"
         ELSE /\ UNCHANGED trace
              /\ pc' = "origin"
    /\ UNCHANGED <<world, locals, ret, decision, reports, snapshot>>
    /\ UNCHANGED parser

\* git_remote_lookup(&origin, repo, "origin"): failure is reported, the
\* repository is still returned.
lookup_origin ==
    /\ pc = "origin"
    /\ \E ok \in BOOLEAN :
         IF ok
         THEN /\ Note("git_remote_lookup", 0)
              /\ pc' = "fetch"
              /\ UNCHANGED <<reports, decision, ret>>
         ELSE /\ Note("git_remote_lookup", -1)
              /\ Report("origin lookup failed")
              /\ Return("Aborted(origin-lookup-failed)", nonfatal_return(repo))
    /\ UNCHANGED <<world, locals, snapshot>>
    /\ UNCHANGED parser

\* if (error) report_error(...); else check_remote_status(...);
after_fetch_unchecked(error) == "branch_lookup"
after_fetch(error) == IF error # 0 THEN "free_origin" ELSE "branch_lookup"

\* git_remote_fetch(): success brings the remote-tracking reference up to the
\* remote branch; failure is reported and skips check_remote_status().
fetch ==
    /\ pc = "fetch"
    /\ \E ok \in BOOLEAN :
         IF ok
         THEN /\ Note("git_remote_fetch", 0)
              /\ upstreamRef' = DirectRef(serverRef)
              /\ pc' = after_fetch(0)
              /\ UNCHANGED <<reports, decision>>
         ELSE /\ Note("git_remote_fetch", -1)
              /\ Report("Unable to fetch remote")
              /\ decision' = "Aborted(fetch-failed)"
              /\ pc' = after_fetch(-1)
              /\ UNCHANGED upstreamRef
    /\ UNCHANGED <<graph, pathState, bare, head, localRef, serverRef, workTree, statusEntries>>
    /\ UNCHANGED <<locals, ret, snapshot>>
    /\ UNCHANGED parser

\* ------------------------------------------------------- check_remote_status
\* git_branch_lookup(&local_ref, repo, branch, GIT_BRANCH_LOCAL)
lookup_branch ==
    /\ pc = "branch_lookup"
    /\ \E ok \in BOOLEAN :
         IF ok
         THEN /\ Note("git_branch_lookup", 0)
              /\ pc' = "branch_upstream"
              /\ UNCHANGED <<reports, decision>>
         ELSE /\ Note("git_branch_lookup", -1)
              /\ Report("Git cache branch no longer exists")
              /\ decision' = "Aborted(branch-missing)"
              /\ pc' = "free_origin"
    /\ UNCHANGED <<world, locals, ret, snapshot>>
    /\ UNCHANGED parser

\* git_branch_upstream(&remote_ref, local_ref); on failure local_ref is freed.
lookup_upstream ==
    /\ pc = "branch_upstream"
    /\ \E ok \in BOOLEAN :
         IF ok
         THEN /\ Note("git_branch_upstream", 0)
              /\ pc' = "try_to_update"
              /\ UNCHANGED <<reports, decision>>
         ELSE /\ trace' = trace \o <<Call("git_branch_upstream", -1),
                                      Call("git_reference_free(local_ref)", 0)>>
              /\ Report("Git cache branch no longer has an upstream branch")
              /\ decision' = "Aborted(upstream-missing)"
              /\ pc' = "free_origin"
    /\ UNCHANGED <<world, locals, ret, snapshot>>
    /\ UNCHANGED parser

\* ------------------------------------------------------------ try_to_update
\* if (!git_reference_cmp(local, remote)) return 0;
compare_references ==
    /\ pc = "try_to_update"
    /\ Note("git_reference_cmp", git_reference_cmp(localRef, upstreamRef))
    /\ IF references_equal(localRef, upstreamRef)
       THEN /\ decision' = "NoOp"
            /\ pc' = "free_refs"
       ELSE /\ pc' = "status"
            /\ UNCHANGED decision
    /\ remote0' = upstreamRef
    /\ UNCHANGED <<world, locals, ret, reports, local0, tree0, entries0, applied>>
    /\ UNCHANGED parser

\* git_status_foreach(repo, check_clean, NULL): the callback warns about the
\* first entry it rejects and stops the enumeration; the enumeration itself
\* can fail. Any nonzero result skips the update.
check_status ==
    /\ pc = "status"
    /\ \E ok \in BOOLEAN :
         LET dirty == FirstDirty(statusEntries)
             rv == IF ~ok THEN -1 ELSE IF dirty # 0 THEN 1 ELSE 0
         IN  /\ Note("git_status_foreach", rv)
             /\ IF rv # 0
                THEN /\ reports' = (IF rv = 1
                                    THEN reports \o <<"WARNING: Git cache directory modified">>
                                    ELSE reports)
                                   \o <<"local cached copy is dirty, skipping update">>
                     /\ decision' = "Aborted(dirty-tree)"
                     /\ pc' = "free_refs"
                ELSE /\ pc' = "targets"
                     /\ UNCHANGED <<reports, decision>>
    /\ UNCHANGED <<world, locals, ret, snapshot>>
    /\ UNCHANGED parser

\* local_id = git_reference_target(local); remote_id = ...(remote);
\* if (!local_id || !remote_id) return report_error(...)
read_targets ==
    /\ pc = "targets"
    /\ local_id' = git_reference_target(localRef)
    /\ remote_id' = git_reference_target(upstreamRef)
    /\ IF local_id' = NULL \/ remote_id' = NULL
       THEN /\ Report("Unable to get local or remote SHA1")
            /\ decision' = "Aborted(missing-oid)"
            /\ pc' = "free_refs"
       ELSE /\ pc' = "merge_base"
            /\ UNCHANGED <<reports, decision>>
    /\ UNCHANGED <<world, remote, rt, repo, base, ret, trace, snapshot>>
    /\ UNCHANGED parser

\* git_merge_base(&base, repo, local_id, remote_id)
merge_base ==
    /\ pc = "merge_base"
    /\ LET bases == MergeBases(graph, local_id, remote_id)
       IN  \/ /\ \E b \in bases : base' = b
              /\ Note("git_merge_base", 0)
              /\ pc' = "decide"
              /\ UNCHANGED <<reports, decision>>
           \/ /\ Note("git_merge_base", -1)
              /\ Report("Unable to find common commit of local and remote branches")
              /\ decision' = "Aborted(merge-base-failed)"
              /\ pc' = "free_refs"
              /\ UNCHANGED base
    /\ UNCHANGED <<world, remote, rt, repo, local_id, remote_id, ret, snapshot>>
    /\ UNCHANGED parser

\* The three tests on base: remote strictly newer, local strictly newer,
\* diverged (bare, not HEAD, needs merge).
decide ==
    /\ pc = "decide"
    /\ LET action == update_action(base, local_id, remote_id)
       IN  CASE action = "reset_to_remote" ->
                  /\ decision' = "FastForwardLocal"
                  /\ pc' = "reset_to_remote"
                  /\ UNCHANGED <<reports, trace>>
             [] action = "update_remote" ->
                  /\ decision' = "PushLocal"
                  /\ pc' = "update_remote"
                  /\ UNCHANGED <<reports, trace>>
             [] OTHER ->
                  \E is_head \in HeadResults :
                    LET outcome == diverged_outcome(bare, is_head)
                    IN  /\ decision' = outcome
                        /\ pc' = "free_refs"
                        /\ trace' = trace \o <<Call("git_repository_is_bare", IF bare THEN 1 ELSE 0)>>
                                          \o (IF bare THEN <<>> ELSE <<Call("git_branch_is_head", is_head)>>)
                        /\ Report(CASE outcome = "DivergedBareRepo" ->
                                         "Local and remote have diverged, merge of bare branch needed"
                                    [] outcome = "DivergedNotHead" ->
                                         "Local and remote do not match, local branch not HEAD - cannot update"
                                    [] OTHER ->
                                         "Local and remote have diverged, need to merge")
    /\ UNCHANGED <<world, locals, ret, snapshot>>
    /\ UNCHANGED parser

\* ---------------------------------------------------------- reset_to_remote
\* if (git_repository_is_bare(repo) || git_branch_is_head(local) != 1)
reset_to_remote ==
    /\ pc = "reset_to_remote"
    /\ \E is_head \in HeadResults :
         /\ trace' = trace \o <<Call("git_repository_is_bare", IF bare THEN 1 ELSE 0)>>
                           \o (IF bare THEN <<>> ELSE <<Call("git_branch_is_head", is_head)>>)
         /\ pc' = IF not_checked_out(bare, is_head) THEN "set_target" ELSE "object_lookup"
    /\ UNCHANGED <<world, locals, ret, decision, reports, snapshot>>
    /\ UNCHANGED parser

\* reset_to_remote(repo, local, remote_id): the oid the branch is moved to.
new_id_stale(lid, rid) == lid
new_id(lid, rid) == rid

\* git_reference_set_target(&out, local, new_id, "Update to remote"), then
\* git_reference_free(out)
set_target ==
    /\ pc = "set_target"
    /\ \E ok \in BOOLEAN :
         IF ok
         THEN /\ trace' = trace \o <<Call("git_reference_set_target", 0),
                                      Call("git_reference_free(out)", 0)>>
              /\ localRef' = DirectRef(new_id(local_id, remote_id))
              /\ Report("Updated local branch from remote")
         ELSE /\ Note("git_reference_set_target", -1)
              /\ Report("Could not update local ref to newer remote ref")
              /\ UNCHANGED localRef
    /\ pc' = "free_refs"
    /\ UNCHANGED <<graph, pathState, bare, head, upstreamRef, serverRef, workTree, statusEntries>>
    /\ UNCHANGED <<locals, ret, decision, snapshot>>
    /\ UNCHANGED parser

\* git_object_lookup(&target, repo, new_id, GIT_OBJ_COMMIT)
lookup_commit ==
    /\ pc = "object_lookup"
    /\ \E ok \in BOOLEAN :
         IF ok
         THEN /\ Note("git_object_lookup", 0)
              /\ pc' = "git_reset"
              /\ UNCHANGED reports
         ELSE /\ Note("git_object_lookup", -1)
              /\ Report("Could not look up remote commit")
              /\ pc' = "free_refs"
    /\ UNCHANGED <<world, locals, ret, decision, snapshot>>
    /\ UNCHANGED parser

\* What a hard reset leaves of the status report: modifications are gone,
\* ignored files stay.
AfterHardReset(entries) == SelectSeq(entries, LAMBDA st : st \subseteq GIT_STATUS_IGNORED)

\* git_reset(repo, target, GIT_RESET_HARD, &opts): moves the checked-out
\* branch to the target and rewrites the working tree. The call is not one
\* atomic step of the backend: when it fails, either part may already be
\* done ("Local head checkout failed after update").
hard_reset ==
    /\ pc = "git_reset"
    /\ \/ /\ Note("git_reset", 0)
          /\ localRef' = DirectRef(new_id(local_id, remote_id))
          /\ workTree' = new_id(local_id, remote_id)
          /\ statusEntries' = AfterHardReset(statusEntries)
          /\ Report("Updated local information from remote")
       \/ /\ Note("git_reset", -1)
          /\ \E moved \in BOOLEAN, written \in BOOLEAN :
               /\ localRef' = IF moved THEN DirectRef(new_id(local_id, remote_id)) ELSE localRef
               /\ workTree' = IF written THEN new_id(local_id, remote_id) ELSE workTree
               /\ statusEntries' = IF written THEN AfterHardReset(statusEntries) ELSE statusEntries
          /\ Report("Local head checkout failed after update")
    /\ pc' = "free_refs"
    /\ UNCHANGED <<graph, pathState, bare, head, upstreamRef, serverRef>>
    /\ UNCHANGED <<locals, ret, decision, snapshot>>
    /\ UNCHANGED parser

\* ------------------------------------------------------------ update_remote
\* update_remote() without its informational report.
update_remote_silent ==
    /\ pc = "update_remote"
    /\ \/ /\ Note("git_remote_push", 0)
          /\ serverRef' = local_id
          /\ upstreamRef' = DirectRef(local_id)
          /\ UNCHANGED reports
       \/ /\ Note("git_remote_push", -1)
          /\ \E delivered \in BOOLEAN :
               serverRef' = IF delivered THEN local_id ELSE serverRef
          /\ UNCHANGED upstreamRef
          /\ Report("Unable to update remote with current local cache state")
    /\ pc' = "free_refs"
    /\ UNCHANGED <<graph, pathState, bare, head, localRef, workTree, statusEntries>>
    /\ UNCHANGED <<locals, ret, decision, snapshot>>
    /\ UNCHANGED parser

\* git_remote_push(origin, &refspec, &opts) with the local branch as refspec.
\* A push reported as failed may or may not have reached the remote.
update_remote ==
    /\ pc = "update_remote"
    /\ \/ /\ Note("git_remote_push", 0)
          /\ serverRef' = local_id
          /\ upstreamRef' = DirectRef(local_id)
          /\ Report("Local cache more recent than remote")
       \/ /\ Note("git_remote_push", -1)
          /\ \E delivered \in BOOLEAN :
               serverRef' = IF delivered THEN local_id ELSE serverRef
          /\ UNCHANGED upstreamRef
          /\ Report("Unable to update remote with current local cache state")
    /\ pc' = "free_refs"
    /\ UNCHANGED <<graph, pathState, bare, head, localRef, workTree, statusEntries>>
    /\ UNCHANGED <<locals, ret, decision, snapshot>>
    /\ UNCHANGED parser

\* ------------------------------------------------------------------ returns
\* check_remote_status(): git_reference_free(local_ref), (remote_ref)
free_references ==
    /\ pc = "free_refs"
    /\ trace' = trace \o <<Call("git_reference_free(local_ref)", 0),
                         Call("git_reference_free(remote_ref)", 0)>>
    /\ pc' = "free_origin"
    /\ UNCHANGED <<world, locals, ret, decision, reports, snapshot>>
    /\ UNCHANGED parser

\* update_local_repo(): git_remote_free(origin); return repo;
return_repo ==
    /\ pc = "free_origin"
    /\ Note("git_remote_free(origin)", 0)
    /\ ret' = nonfatal_return(repo)
    /\ pc' = "done"
    /\ UNCHANGED <<world, locals, decision, reports, snapshot>>
    /\ UNCHANGED parser

\* The caller is done with the handle and the call's frame is gone; the next
\* acquire starts from the cache as this one left it.
release ==
    /\ pc = "done"
    /\ pc' = "idle"
    /\ remote' = GIT_URL
    /\ rt' = "OTHER"
    /\ repo' = "NULL"
    /\ ret' = "unset"
    /\ local_id' = NULL
    /\ remote_id' = NULL
    /\ base' = NULL
    /\ decision' = "none"
    /\ reports' = <<>>
    /\ trace' = <<>>
    /\ local0' = localRef
    /\ tree0' = workTree
    /\ entries0' = statusEntries
    /\ remote0' = SymbolicRef
    /\ applied' = (Reported("Updated local branch from remote")
                    \/ Reported("Updated local information from remote"))
    /\ UNCHANGED world
    /\ UNCHANGED parser

Next ==
    \/ get_remote_repo
    \/ create_local_repo
    \/ open_repository
    \/ set_proxy
    \/ lookup_origin
    \/ fetch
    \/ lookup_branch
    \/ lookup_upstream
    \/ compare_references
    \/ check_status
    \/ read_targets
    \/ merge_base
    \/ decide
    \/ reset_to_remote
    \/ set_target
    \/ lookup_commit
    \/ hard_reset
    \/ update_remote
    \/ free_references
    \/ return_repo
    \/ release

Spec == Init /\ [][Next]_vars

\* -------------------------------------------------------- is_git_repository
\* The cache as is_git_repository() finds it; what get_remote_repo() does
\* with it is the specification above, here only its result is used.
SyncIdle ==
    /\ graph = CHOOSE g \in Graphs : TRUE
    /\ pathState = "absent"
    /\ bare = FALSE
    /\ head = TRUE
    /\ localRef = DirectRef(1)
    /\ upstreamRef = DirectRef(1)
    /\ serverRef = 1
    /\ workTree = 1
    /\ statusEntries = <<>>
    /\ pc = "idle"
    /\ remote = GIT_URL
    /\ rt = "OTHER"
    /\ repo = "NULL"
    /\ ret = "unset"
    /\ local_id = NULL
    /\ remote_id = NULL
    /\ base = NULL
    /\ decision = "none"
    /\ reports = <<>>
    /\ trace = <<>>
    /\ local0 = DirectRef(1)
    /\ tree0 = 1
    /\ entries0 = <<>>
    /\ remote0 = SymbolicRef
    /\ applied = FALSE

PInit ==
    /\ SyncIdle
    /\ filename \in Filenames
    /\ ppc = "start"
    /\ loc = <<>>
    /\ branch = <<>>
    /\ branchp = <<>>
    /\ result = "none"
    /\ identity = <<>>
    /\ remoteArg = <<>>
    /\ localdir = <<>>
    /\ loc0 = <<>>
    /\ isRemote = "unknown"

\* return from is_git_repository()
PReturn(value) ==
    /\ result' = value
    /\ ppc' = "done"

\* is_git_repository() to the call of is_remote_git_repository(): the split,
\* *branchp = filename, and the two format_string() copies, either of which
\* may be NULL.
is_git_repository ==
    /\ ppc = "start"
    /\ LET split == split_filename(filename)
       IN  IF ~split.ok
           THEN /\ PReturn("NULL")
                /\ UNCHANGED <<loc, branch, branchp, loc0>>
           ELSE /\ branchp' = <<filename>>
                /\ \/ /\ loc' = split.loc
                      /\ loc0' = split.loc
                      /\ branch' = split.branch
                      /\ ppc' = "remote"
                      /\ UNCHANGED result
                   \/ /\ PReturn("dummy")
                      /\ UNCHANGED <<loc, branch, loc0>>
    /\ UNCHANGED <<filename, identity, remoteArg, localdir, isRemote>>
    /\ UNCHANGED sync

\* is_remote_git_repository() to the call of get_remote_repo().
is_remote_git_repository ==
    /\ ppc = "remote"
    /\ IF ~has_scheme(loc)
       THEN /\ isRemote' = "no"
            /\ ppc' = "local"
            /\ UNCHANGED <<loc, identity, remoteArg, localdir>>
       ELSE LET skip == file_skip(loc)
                url == extract_identity(FormatPrefix(loc, skip, Len(loc)))
            IN  /\ isRemote' = "yes"
                /\ identity' = IF url.identity # <<>> THEN url.identity ELSE identity
                /\ loc' = FormatPrefix(loc, 0, skip) \o url.url
                /\ remoteArg' = url.url
                /\ \/ /\ localdir' = <<get_local_dir(url.url, branch)>>
                      /\ ppc' = "acquire"
                   \/ /\ localdir' = <<>>
                      /\ ppc' = "local"
    /\ UNCHANGED <<filename, branch, branchp, result, loc0>>
    /\ UNCHANGED sync

\* get_remote_repo() has run: a repository, NULL (clone, open or corrupt
\* cache), or no return at all from the report of a corrupt cache.
remote_repo_result ==
    /\ ppc = "acquire"
    /\ \/ /\ branchp' = <<branch>>
          /\ PReturn("repo")
       \/ /\ ppc' = "local"
          /\ UNCHANGED <<branchp, result>>
       \/ /\ ppc' = "crashed"
          /\ UNCHANGED <<branchp, result>>
    /\ UNCHANGED <<filename, loc, branch, identity, remoteArg, localdir, loc0, isRemote>>
    /\ UNCHANGED sync

\* stat(loc) and git_repository_open(&repo, loc)
open_local ==
    /\ ppc = "local"
    /\ \E is_dir \in BOOLEAN, open_rv \in {0, -1} :
         IF is_dir /\ open_rv = 0
         THEN /\ branchp' = <<branch>>
              /\ PReturn("repo")
         ELSE /\ PReturn("dummy")
              /\ UNCHANGED branchp
    /\ UNCHANGED <<filename, loc, branch, identity, remoteArg, localdir, loc0, isRemote>>
    /\ UNCHANGED sync

PNext ==
    \/ is_git_repository
    \/ is_remote_git_repository
    \/ remote_repo_result
    \/ open_local

ParseSpec == PInit /\ [][PNext]_vars

\* ================================================================ properties
\* The call has reached try_to_update() (both references were looked up).
InSync == Called("git_reference_cmp")

\* Section 4.5: an entry makes the tree dirty iff it has a flag outside
\* {current, ignored}.
FlagsOutsideCurrentIgnored(st) ==
    BitAnd(st, BitNot(BitOr(GIT_STATUS_CURRENT, GIT_STATUS_IGNORED))) # {}
TreeDirty(entries) == \E i \in 1..Len(entries) : FlagsOutsideCurrentIgnored(entries[i])

\* The steps that change the cache or the remote.
Mutators == {"git_reference_set_target", "git_reset", "git_remote_push"}
NoMutatorCalled == \A i \in 1..Len(trace) : trace[i].call \notin Mutators
CacheUntouched ==
    /\ localRef = local0
    /\ workTree = tree0
    /\ statusEntries = entries0

\* No backend call of the attempt reported an error (a status callback that
\* stops the enumeration is an answer, not an error).
NoBackendError == \A i \in 1..Len(trace) : trace[i].rv >= 0
NoErrorExcept(name) == \A i \in 1..Len(trace) : trace[i].call # name => trace[i].rv >= 0

\* The relation of the two branches when try_to_update() compared them.
RemoteStrictlyAhead ==
    /\ local0.type = "direct"
    /\ remote0.type = "direct"
    /\ local0 # remote0
    /\ local0.oid \in Ancestors(graph, remote0.oid)
LocalStrictlyAhead ==
    /\ local0.type = "direct"
    /\ remote0.type = "direct"
    /\ local0 # remote0
    /\ remote0.oid \in Ancestors(graph, local0.oid)

\* C1: local work is never discarded. In every sync attempt the local branch
\* reference either keeps its value or becomes remote_oid, the latter only
\* when the merge base of local_oid and remote_oid is local_oid; so every
\* commit reachable from the branch before the attempt is reachable after.
C1_LocalWorkNeverDiscarded ==
    ~Called("git_clone") =>
        /\ localRef # local0 =>
              /\ local0.type = "direct"
              /\ remote_id # NULL
              /\ localRef = DirectRef(remote_id)
              /\ local_id = local0.oid
              /\ base = local_id
              /\ base \in MergeBases(graph, local0.oid, remote_id)
        /\ local0.type = "direct" =>
              /\ localRef.type = "direct"
              /\ Ancestors(graph, local0.oid) \subseteq Ancestors(graph, localRef.oid)

\* C1 witness: a finished attempt that moved the branch of a checked-out cache.
C1_Witness ==
    /\ pc = "done"
    /\ localRef # local0
    /\ Called("git_reset")
    /\ Ancestors(graph, local0.oid) # Ancestors(graph, localRef.oid)

\* C2: a dirty tree with local_oid != remote_oid always ends in
\* Aborted(dirty-tree), whatever the ahead/behind/diverged relation: no
\* reference moved, no reset, no push; and no merge base is ever computed
\* before the status has been enumerated.
C2_DirtyTreeAborts ==
    /\ (/\ InSync
        /\ Result("git_reference_cmp") # 0
        /\ TreeDirty(entries0)
        /\ pc # "status")
       => /\ decision = "Aborted(dirty-tree)"
          /\ CacheUntouched
          /\ NoMutatorCalled
          /\ ~Called("git_merge_base")
          /\ ~Called("git_object_lookup")
    /\ \A i \in 1..Len(trace) :
          trace[i].call = "git_merge_base" =>
             \E j \in 1..(i - 1) : trace[j].call = "git_status_foreach"

\* C2 witness: a finished attempt on a dirty tree whose local branch is
\* strictly ahead of the remote.
C2_Witness ==
    /\ pc = "done"
    /\ InSync
    /\ TreeDirty(entries0)
    /\ decision = "Aborted(dirty-tree)"
    /\ local0.type = "direct"
    /\ LocalStrictlyAhead

\* C3: remote strictly ahead and the working tree clean (no entry with a flag
\* outside {current, ignored}): the decision is FastForwardLocal and the
\* local branch ends at remote_oid, checked out or not. Stated for attempts
\* in which no backend call fails.
C3_FastForwardWhenClean ==
    (/\ pc = "done"
     /\ InSync
     /\ NoBackendError
     /\ RemoteStrictlyAhead
     /\ ~TreeDirty(entries0))
    => /\ decision = "FastForwardLocal"
       /\ localRef = remote0

\* C4: local strictly ahead and the tree clean: the decision is PushLocal
\* with exactly one push; a failed push leaves the local branch and working
\* tree unchanged, is reported, and the caller still gets the handle. Stated
\* for attempts in which no backend call other than the push fails.
C4_PushWhenClean ==
    (/\ pc = "done"
     /\ InSync
     /\ NoErrorExcept("git_remote_push")
     /\ LocalStrictlyAhead
     /\ ~TreeDirty(entries0))
    => /\ decision = "PushLocal"
       /\ CallCount("git_remote_push") = 1
       /\ ret = "repo"
       /\ Result("git_remote_push") # 0 =>
             /\ CacheUntouched
             /\ Reported("Unable to update remote with current local cache state")

\* C5: diverged histories (the computed merge base is neither local_oid nor
\* remote_oid): no reference move, no reset, no push, and the outcome is
\* DivergedBareRepo for a bare repository (also when the branch is not HEAD),
\* else DivergedNotHead when git_branch_is_head() does not answer 1, else
\* DivergedNeedsMerge.
C5_DivergedNoMutation ==
    (/\ Called("git_merge_base")
     /\ Result("git_merge_base") = 0
     /\ base \notin {local_id, remote_id}
     /\ pc # "decide")
    => /\ CacheUntouched
       /\ NoMutatorCalled
       /\ ~Called("git_object_lookup")
       /\ Called("git_repository_is_bare")
       /\ decision = (IF bare THEN "DivergedBareRepo"
                      ELSE IF Result("git_branch_is_head") # 1 THEN "DivergedNotHead"
                      ELSE "DivergedNeedsMerge")
       /\ (decision = "DivergedNeedsMerge") = (~bare /\ head /\ Result("git_branch_is_head") = 1)
       /\ Len(reports) = 1

\* C5 witness: a bare repository whose branch is not HEAD either, diverged.
C5_Witness ==
    /\ pc = "done"
    /\ bare
    /\ ~head
    /\ decision = "DivergedBareRepo"
    /\ base \notin {local_id, remote_id}

\* C6: equal references after a successful fetch: NoOp, no report, no status
\* enumeration, no merge base, nothing changed locally or on the remote.
C6_EqualIsNoOp ==
    (/\ InSync
     /\ local0 = remote0
     /\ pc # "try_to_update")
    => /\ decision = "NoOp"
       /\ reports = <<>>
       /\ ~Called("git_status_foreach")
       /\ ~Called("git_merge_base")
       /\ NoMutatorCalled
       /\ CacheUntouched
       /\ upstreamRef = remote0
       /\ serverRef = remote0.oid

\* C6 witness: a finished attempt on equal direct references.
C6_Witness ==
    /\ pc = "done"
    /\ InSync
    /\ local0.type = "direct"
    /\ local0 = remote0
    /\ decision = "NoOp"
    /\ ret = "repo"

\* C7: no partial mutation: after every sync attempt the local branch and the
\* working tree are what they were, or the fast-forward succeeded in full and
\* the branch is at remote_oid.
C7_NoPartialMutation ==
    (pc = "done" /\ InSync)
    => \/ CacheUntouched
       \/ /\ decision = "FastForwardLocal"
          /\ localRef = remote0
          /\ (Reported("Updated local branch from remote")
                \/ Reported("Updated local information from remote"))
          /\ ~Reported("Local head checkout failed after update")

\* C8: once git_repository_open() has succeeded, every outcome returns that
\* repository handle; only OpenFailure, CloneFailure and CorruptCache return
\* no handle.
C8_HandleSurvives ==
    pc = "done" =>
       /\ (Called("git_repository_open") /\ Result("git_repository_open") = 0)
             => (ret = "repo" /\ ret = repo)
       /\ (ret = "NULL") = (decision \in {"OpenFailure", "CloneFailure", "CorruptCache"})

\* C8 witness: the handle is returned although the push failed.
C8_Witness ==
    /\ pc = "done"
    /\ Called("git_remote_push")
    /\ Result("git_remote_push") = -1
    /\ ret = "repo"

\* C8 second witness state, the earliest non-fatal exit: origin lookup failed.
C8_WitnessOrigin ==
    /\ pc = "done"
    /\ decision = "Aborted(origin-lookup-failed)"
    /\ ret = "repo"

\* C9: a cache path that is no directory gives CorruptCache: no handle, no
\* backend call at all; an absent path is cloned and nothing else is called;
\* a directory is opened and never cloned.
C9_AcquirePaths ==
    /\ (pathState = "file" /\ pc # "idle")
          => /\ decision = "CorruptCache"
             /\ ret \in {"NULL", "unset"}
             /\ pc \in {"done", "crashed"}
             /\ trace = <<>>
    /\ decision = "CorruptCache" => pathState = "file"
    /\ Called("git_clone") => (Len(trace) = 1 /\ pc = "done")
    /\ (pathState = "absent" /\ pc # "idle")
          => \A i \in 1..Len(trace) : trace[i].call = "git_clone"
    /\ (pathState = "dir" /\ pc \notin {"idle", "update_local_repo"} /\ ~Called("git_clone"))
          => /\ trace # <<>>
             /\ trace[1].call = "git_repository_open"

\* C9 witness: the corrupt path returned no handle.
C9_Witness ==
    /\ pc = "done"
    /\ pathState = "file"
    /\ decision = "CorruptCache"
    /\ ret = "NULL"

\* C10: the tree counts as dirty iff some enumerated entry has a flag outside
\* {current, ignored}; an entry that is only ignored does not block an update.
C10_DirtyIffOutsideCurrentIgnored ==
    (Called("git_status_foreach") /\ Result("git_status_foreach") >= 0)
    => ((Result("git_status_foreach") # 0) = TreeDirty(entries0))

\* ----------------------------------------------------------------- handles
\* The handle a successful backend call hands out, and the call that frees it.
HandleOf(call) ==
    CASE call = "git_repository_config" -> "conf"
      [] call = "git_remote_lookup" -> "origin"
      [] call = "git_branch_lookup" -> "local_ref"
      [] call = "git_branch_upstream" -> "remote_ref"
      [] call = "git_reference_set_target" -> "out"
      [] call = "git_object_lookup" -> "target"
      [] OTHER -> "none"
FreeOf(call) ==
    CASE call = "git_reference_free(local_ref)" -> "local_ref"
      [] call = "git_reference_free(remote_ref)" -> "remote_ref"
      [] call = "git_reference_free(out)" -> "out"
      [] call = "git_remote_free(origin)" -> "origin"
      [] OTHER -> "none"
Held ==
    {HandleOf(trace[i].call) : i \in {k \in 1..Len(trace) :
        /\ HandleOf(trace[k].call) # "none"
        /\ trace[k].rv = 0
        /\ \A j \in (k + 1)..Len(trace) : FreeOf(trace[j].call) # HandleOf(trace[k].call)}}

\* C16: every backend handle acquired during the sync (configuration, origin,
\* both references, the reference of a target update, the looked-up commit)
\* has been released when update_local_repo() returns.
C16_AllHandlesReleased == pc = "done" => Held = {}

\* ------------------------------------------------------------------- order
\* The position of each call in update_local_repo()'s fixed sequence.
StepRank(call) ==
    CASE call = "git_clone" -> 0
      [] call = "git_repository_open" -> 1
      [] call = "git_repository_config" -> 2
      [] call = "git_config_set_string" -> 3
      [] call = "git_remote_lookup" -> 4
      [] call = "git_remote_fetch" -> 5
      [] call = "git_branch_lookup" -> 6
      [] call = "git_branch_upstream" -> 7
      [] call = "git_reference_cmp" -> 8
      [] call = "git_status_foreach" -> 9
      [] call = "git_merge_base" -> 10
      [] call = "git_repository_is_bare" -> 11
      [] call = "git_branch_is_head" -> 12
      [] call \in {"git_reference_set_target", "git_object_lookup", "git_remote_push"} -> 13
      [] call \in {"git_reset", "git_reference_free(out)"} -> 14
      [] call = "git_reference_free(local_ref)" -> 20
      [] call = "git_reference_free(remote_ref)" -> 21
      [] call = "git_remote_free(origin)" -> 22
InOrder == \A i, j \in 1..Len(trace) : i < j => StepRank(trace[i].call) < StepRank(trace[j].call)

\* A step failed: an error result, or a status enumeration that was stopped.
ProxySteps == {"git_repository_config", "git_config_set_string"}
Failed(i) ==
    /\ trace[i].call # "git_branch_is_head"
    /\ \/ trace[i].rv < 0
       \/ trace[i].call = "git_status_foreach" /\ trace[i].rv # 0
OnlyFreesAfter(i) == \A j \in (i + 1)..Len(trace) : FreeOf(trace[j].call) # "none"

\* After a failed fetch: no lookup, no status, no reference move, no reset, no
\* push, and the repository is returned as it was.
FetchFailureStops ==
    (Called("git_remote_fetch") /\ Result("git_remote_fetch") # 0)
    => /\ \A i \in 1..Len(trace) : StepRank(trace[i].call) \in 6..21 => FALSE
       /\ CacheUntouched
       /\ decision = "Aborted(fetch-failed)"
       /\ pc = "done" => ret = "repo"
ProxyOnlyForHttps == Called("git_repository_config") => (rt = "HTTPS" /\ remote = HTTPS_URL)

\* C18 as stated: the steps run in the fixed order and every failure, the
\* proxy configuration's included, stops the sequence.
C18_EveryFailureStops ==
    /\ InOrder
    /\ ProxyOnlyForHttps
    /\ \A i \in 1..Len(trace) : Failed(i) => OnlyFreesAfter(i)
    /\ FetchFailureStops

\* C18 amended: the steps run in the fixed order; every failure stops the
\* sequence except a failed proxy configuration, whose result is ignored; a
\* failed fetch is followed by no lookup, check, move, reset or push and the
\* repository is returned unchanged.
C18_CheckedFailuresStop ==
    /\ InOrder
    /\ ProxyOnlyForHttps
    /\ \A i \in 1..Len(trace) :
          (Failed(i) /\ trace[i].call \notin ProxySteps) => OnlyFreesAfter(i)
    /\ FetchFailureStops

\* C18 witness: a finished attempt whose fetch failed.
C18_Witness ==
    /\ pc = "done"
    /\ Called("git_remote_fetch")
    /\ Result("git_remote_fetch") = -1
    /\ ret = "repo"
    /\ rt = "HTTPS"
    /\ Called("git_config_set_string")

\* C19: after an attempt that applied a fast-forward, the next attempt against
\* the unchanged remote finds equal references: NoOp, no report, no change.
C19_FastForwardIdempotent ==
    (/\ applied
     /\ InSync
     /\ pc # "try_to_update")
    => /\ local0 = remote0
       /\ decision = "NoOp"
       /\ reports = <<>>
       /\ NoMutatorCalled
       /\ CacheUntouched

\* C19 witness: the attempt after a fast-forward has finished.
C19_Witness ==
    /\ applied
    /\ pc = "done"
    /\ InSync
    /\ decision = "NoOp"

\* C20: an attempt on an opened repository emits no report iff it ends NoOp.
C20_SilentIffNoOp ==
    (/\ pc = "done"
     /\ Called("git_repository_open")
     /\ Result("git_repository_open") = 0)
    => ((reports = <<>>) = (decision = "NoOp"))

\* C20 witness: a successful push, which is reported although nothing failed.
C20_Witness ==
    /\ pc = "done"
    /\ decision = "PushLocal"
    /\ Result("git_remote_push") = 0
    /\ Len(reports) = 1

\* ---------------------------------------------------------------- locators
\* The position of the last '[' before the final ']' of a name, 0 for none.
OpenBracket(f) ==
    IF \E k \in 1..(Len(f) - 1) : f[k] = "["
    THEN CHOOSE k \in 1..(Len(f) - 1) :
           /\ f[k] = "["
           /\ \A j \in (k + 1)..(Len(f) - 1) : f[j] # "["
    ELSE 0
Unparseable(f) ==
    \/ f = <<>>
    \/ f[Len(f)] # "]"
    \/ OpenBracket(f) = 0
    \/ \A j \in 1..(OpenBracket(f) - 1) : f[j] = "/"
BracketBranch(f) == SubSeq(f, OpenBracket(f) + 1, Len(f) - 1)

\* C11: NULL is returned, with *branchp untouched, exactly for a name that is
\* empty, does not end in ']', has no '[' before the final ']' or has an
\* empty path once trailing '/' are stripped; every other name gives the
\* dummy repository with *branchp the whole name, or a repository with
\* *branchp the branch name.
C11_NullIffUnparseable ==
    ppc = "done"
    => /\ result \in {"NULL", "dummy", "repo"}
       /\ (result = "NULL") = Unparseable(filename)
       /\ result = "NULL" => branchp = <<>>
       /\ result = "dummy" => branchp = <<filename>>
       /\ result = "repo" => branchp = <<BracketBranch(filename)>>

\* C11 witness: a remote name whose acquire failed still gives the dummy.
C11_Witness ==
    /\ ppc = "done"
    /\ result = "dummy"
    /\ localdir # <<>>
    /\ branchp = <<filename>>

\* The name is P S [ B ] with P = the first p characters, '[' at position k.
LocatorForm(f, p, k) ==
    /\ 1 <= p
    /\ p < k
    /\ k < Len(f)
    /\ f[Len(f)] = "]"
    /\ f[k] = "["
    /\ f[p] # "/"
    /\ \A j \in (p + 1)..(k - 1) : f[j] = "/"
    /\ \A j \in (k + 1)..(Len(f) - 1) : f[j] # "["

\* C12: a name P S [ B ], B without '[', S only '/', P non-empty and not
\* ending in '/', splits into path P and branch B, the same as P [ B ].
C12_SplitsPathAndBranch ==
    \A p, k \in 1..Len(filename) :
       LocatorForm(filename, p, k)
       => LET P == SubSeq(filename, 1, p)
              B == SubSeq(filename, k + 1, Len(filename) - 1)
              plain == split_filename(P \o <<"[">> \o B \o <<"]">>)
          IN  /\ ppc # "start" => result # "NULL"
              /\ ppc = "remote" => (loc = P /\ branch = B)
              /\ ppc = "remote" => (plain.ok /\ plain.loc = loc /\ plain.branch = branch)

\* C12 witness: a name with two separators before the bracket has been split.
C12_Witness ==
    /\ ppc = "remote"
    /\ branch # <<>>
    /\ \E k \in 3..Len(filename) :
         /\ LocatorForm(filename, k - 3, k)
         /\ loc = SubSeq(filename, 1, k - 3)

\* C13: a name that was split has a branch that is not empty.
C13_BranchNeverEmpty ==
    (ppc \in {"remote", "acquire", "local"} \/ result = "repo") => branch # <<>>

\* The string begins with at least min lowercase letters and then "://".
SchemePrefix(str, min) ==
    \E n \in min..Len(str) :
       /\ \A i \in 1..n : str[i] \in Lower
       /\ Len(str) >= n + 3
       /\ str[n + 1] = ":"
       /\ str[n + 2] = "/"
       /\ str[n + 3] = "/"

\* C14 as stated: a path is addressed and acquired as a remote only if it
\* begins with one or more lowercase letters and "://".
C14_OneOrMoreLetters ==
    isRemote # "unknown"
    => /\ (isRemote = "yes") = SchemePrefix(loc0, 1)
       /\ isRemote = "no" => (localdir = <<>> /\ remoteArg = <<>>)

\* C14 amended: a path is addressed and acquired as a remote only if it
\* begins with zero or more lowercase letters and "://"; every other path is
\* a local path and never reaches get_remote_repo().
C14_ZeroOrMoreLetters ==
    /\ isRemote # "unknown"
       => /\ (isRemote = "yes") = SchemePrefix(loc0, 0)
          /\ isRemote = "no" => (localdir = <<>> /\ remoteArg = <<>>)
    /\ ppc \in {"acquire", "crashed"} => isRemote = "yes"
    /\ localdir # <<>> => isRemote = "yes"

\* C14 witness: a path that starts with "://" is about to be acquired.
C14_Witness ==
    /\ ppc = "acquire"
    /\ isRemote = "yes"
    /\ loc0[1] = ":"
    /\ localdir # <<>>

\* The first position of ch in str at or after from, 0 for none.
FirstAt(str, ch, from) ==
    IF \E i \in from..Len(str) : str[i] = ch
    THEN CHOOSE i \in from..Len(str) :
           /\ str[i] = ch
           /\ \A j \in from..(i - 1) : str[j] # ch
    ELSE 0

\* C15: for a path that begins with "https://" the identity is extracted
\* exactly when an '@' comes before the first '/' after the prefix (or there
\* is no such '/'): identity = the text between prefix and '@', url = prefix
\* and the text after the '@'; otherwise, and for every other path, the path
\* is unchanged and no identity is recorded.
C15_IdentityExtraction ==
    isRemote = "yes"
    => LET at == FirstAt(loc0, "@", 1)
           slash == FirstAt(loc0, "/", Len(HttpsPrefix) + 1)
       IN  IF HasPrefix(loc0, HttpsPrefix) /\ at # 0 /\ (slash = 0 \/ at < slash)
           THEN /\ identity = <<SubSeq(loc0, Len(HttpsPrefix) + 1, at - 1)>>
                /\ loc = HttpsPrefix \o SubSeq(loc0, at + 1, Len(loc0))
           ELSE /\ identity = <<>>
                /\ loc = loc0

\* Every way to cut a string into a remote and a branch.
Cuts(str) == {<<SubSeq(str, 1, i), SubSeq(str, i + 1, Len(str))>> : i \in 0..Len(str)}
NearbyPairs == Strings({"u", "b"}, 2) \X Strings({"u", "b"}, 2)

\* C17: the cache address is a function of (remote, branch), and two pairs of
\* NUL-free strings that differ, also when only in where the boundary falls,
\* get different digest inputs and different addresses.
C17_AddressInjective ==
    localdir # <<>>
    => /\ localdir = <<get_local_dir(remoteArg, branch)>>
       /\ \A pair \in Cuts(remoteArg \o branch) \cup NearbyPairs :
             pair # <<remoteArg, branch>>
             => /\ digest_input(pair[1], pair[2]) # digest_input(remoteArg, branch)
                /\ get_local_dir(pair[1], pair[2]) # localdir[1]

\* C17 witness: an address was computed for a pair that has another cut.
C17_Witness ==
    /\ localdir # <<>>
    /\ remoteArg # <<>>
    /\ branch # <<>>
    /\ Len(remoteArg) >= 8

====
